---- MODULE Spec2Model ----
(***************************************************************************)
(* A model of lisa.target_script.TargetScript: an accumulator of shell     *)
(* commands that is serialised to a local script, installed on a devlib    *)
(* target and then run in the foreground or in the background.             *)
(*                                                                         *)
(* Strings are sequences of one-character strings, so that formatting and  *)
(* joining are computed character by character.  The devlib target and     *)
(* the local file system are the environment: a store of remote files, a   *)
(* store of local files, a list of background processes and a              *)
(* responsiveness flag.                                                    *)
(***************************************************************************)
EXTENDS Integers, Sequences, FiniteSets, TLC

\* ------------------------------------------------------------------ bounds
MaxCmds == 2      \* longest command list that append() builds
MaxProcs == 2     \* background processes the target starts in one behaviour

\* ----------------------------------------------------------------- strings
NL == "\n"

\* The commands callers append: one plain command, one spanning two lines.
CmdSet == { <<"a">>, <<"b", NL, "c">> }

\* Constructor arguments and the target's busybox path.
ScriptNames == { <<"j", ".", "s">> }
LocalDirs == { <<".", "/">> }
BusyboxPaths == { <<"/", "b">> }

\* The directory in which the target's install() places executables.
RemoteDirs == { <<"/", "x">> }

None == 0

RECURSIVE Join(_, _)
\* str.join(sep, parts)
Join(sep, parts) ==
    IF parts = <<>> THEN <<>>
    ELSE IF Len(parts) = 1 THEN parts[1]
    ELSE parts[1] \o sep \o Join(sep, Tail(parts))

\* os.path.join(a, b)
OsPathJoin(a, b) ==
    IF b # <<>> /\ b[1] = "/" THEN b
    ELSE IF a = <<>> \/ a[Len(a)] = "/" THEN a \o b
    ELSE a \o <<"/">> \o b

RECURSIVE Basename(_)
\* os.path.basename(p): what follows the last "/"
Basename(p) ==
    IF \E i \in 1..Len(p) : p[i] = "/"
    THEN Basename(Tail(p))
    ELSE p

\* '#!{} sh'.format(busybox)
Shebang(bb) == <<"#", "!">> \o bb \o <<" ", "s", "h">>

SetE == <<"s", "e", "t", " ", "-", "e">>
SetPlusE == <<"s", "e", "t", " ", "+", "e">>

\* A variant of ScriptText that ends the text with a newline.
ScriptTextTrailingNewline(bb, cmds) ==
    Join(<<NL>>, <<Shebang(bb)>> \o (<<SetE>> \o cmds \o <<SetPlusE>>)) \o <<NL>>

\* The text push() builds from the accumulated commands.
ScriptText(bb, cmds) ==
    Join(<<NL>>, <<Shebang(bb)>> \o (<<SetE>> \o cmds \o <<SetPlusE>>))

\* '$(pgrep -x {})'.format(script_name)
PgrepExpr(name) ==
    <<"$", "(", "p", "g", "r", "e", "p", " ", "-", "x", " ">> \o name \o <<")">>

\* ------------------------------------------------------------------- state
VARIABLES
    script_name,   \* self.script_name
    local_path,    \* self.local_path
    remote_path,   \* self.remote_path
    commands,      \* self.commands
    proc,          \* self._proc: None or the index of a process in procs
    busybox,       \* target.busybox
    localFiles,    \* local file system: path -> content, for the files that exist
    remoteFiles,   \* target file system: path -> content, for the files that exist
    procs,         \* processes started by target.background(), in start order:
                   \* "running" or "exited"
    responsive,    \* whether the target answers check_responsive()
    pc,            \* "idle", or "wait" while wait() is in its polling loop
    op,            \* the last event: a method of TargetScript, or "env"
    result,        \* how that event ended: "ok" or the error raised
    calls,         \* the collaborator calls that event made, in order
    given,         \* the argument of that event: a command, an attribute name, or <<>>
    ret,           \* what that event returned: <<value>>, or <<>> for None or an error
    before,        \* history: remote_path, commands and proc as they were before that event
    snapshot,      \* history: commands as they were at the last push() that returned normally
    afterPush,     \* history: the event before the last was a push() that returned normally
    pushed,        \* history: a push() has returned normally
    written,       \* history: the texts push() wrote in full since the last append()
    appended       \* history: the arguments of append() and execute(), in call order

vars == << script_name, local_path, remote_path, commands, proc, busybox,
           localFiles, remoteFiles, procs, responsive, pc,
           op, result, calls, given, ret, before, snapshot,
           afterPush, pushed, written, appended, snapshot >>

config == << script_name, local_path, busybox >>
object == << remote_path, commands, proc >>
world == << localFiles, remoteFiles, procs, responsive >>

\* A recorded call of a collaborator: the method, its path or expression
\* argument, the as_root flag and the process handle it is made on.
Call(m, arg, root, h) == [m |-> m, arg |-> arg, root |-> root, h |-> h]

\* The event that now ends had argument a and returns v; the attributes of
\* the object as they are before it are kept.
Record(a, v) ==
    /\ given' = a
    /\ ret' = v
    /\ before' = [remote_path |-> remote_path, commands |-> commands, proc |-> proc]

\* Whether the event that just ended is a push() that returned normally.
PushReturned == op = "push" /\ result = "ok"

\* target.file_exists(path)
FileExists(path) == path \in DOMAIN remoteFiles

\* A file store with path set to content / with path removed.
WithFile(files, path, content) ==
    [q \in DOMAIN files \cup {path} |-> IF q = path THEN content ELSE files[q]]
WithoutFile(files, path) ==
    [q \in DOMAIN files \ {path} |-> files[q]]

\* The path target.install(local) reports for a file placed in directory dir.
InstallPath(dir, local) == dir \o <<"/">> \o Basename(local)

Init ==
    /\ script_name \in ScriptNames
    /\ \E d \in LocalDirs : local_path = OsPathJoin(d, script_name)
    /\ remote_path = <<>>
    /\ commands = <<>>
    /\ proc = None
    /\ busybox \in BusyboxPaths
    /\ localFiles = <<>>
    /\ remoteFiles = <<>>
    /\ procs = <<>>
    /\ responsive = TRUE
    /\ pc = "idle"
    /\ op = "init"
    /\ result = "ok"
    /\ calls = <<>>
    /\ given = <<>>
    /\ ret = <<>>
    /\ before = [remote_path |-> <<>>, commands |-> <<>>, proc |-> None]
    /\ snapshot = <<>>
    /\ afterPush = FALSE
    /\ pushed = FALSE
    /\ written = {}
    /\ appended = <<>>

\* ------------------------------------------------------------- operations

\* A variant of Appended that adds the command twice.
AppendedTwice(cmds, cmd) == cmds \o <<cmd, cmd>>

\* A variant of Appended that puts the command in front of the list.
AppendedInFront(cmds, cmd) == <<cmd>> \o cmds

\* self.commands.append(cmd)
Appended(cmds, cmd) == Append(cmds, cmd)

\* append(cmd)
AppendCmd(cmd) ==
    /\ pc = "idle"
    /\ Len(commands) < MaxCmds
    /\ commands' = Appended(commands, cmd)
    /\ op' = "append"
    /\ result' = "ok"
    /\ calls' = <<>>
    /\ afterPush' = PushReturned
    /\ Record(cmd, <<>>)
    /\ UNCHANGED << config, remote_path, proc, world, pc, pushed, snapshot >>
    /\ written' = {}
    /\ appended' = Append(appended, cmd)

\* execute(cmd): calls append(cmd)
Execute(cmd) ==
    /\ pc = "idle"
    /\ Len(commands) < MaxCmds
    /\ commands' = Appended(commands, cmd)
    /\ op' = "execute"
    /\ result' = "ok"
    /\ calls' = <<>>
    /\ afterPush' = PushReturned
    /\ Record(cmd, <<>>)
    /\ UNCHANGED << config, remote_path, proc, world, pc, pushed, snapshot >>
    /\ written' = {}
    /\ appended' = Append(appended, cmd)

\* _target_attrs
TargetAttrs ==
    { <<"s", "c", "r", "e", "e", "n", "_", "r", "e", "s", "o", "l", "u", "t", "i", "o", "n">>,
      <<"a", "n", "d", "r", "o", "i", "d", "_", "i", "d">>,
      <<"a", "b", "i">>,
      <<"o", "s", "_", "v", "e", "r", "s", "i", "o", "n">>,
      <<"m", "o", "d", "e", "l">> }

\* The names read on the object that it does not store itself: two on the
\* list, one the target has but the list has not, one dunder name.
AttrNames ==
    { <<"m", "o", "d", "e", "l">>,
      <<"a", "b", "i">>,
      <<"b", "u", "s", "y", "b", "o", "x">>,
      <<"_", "_", "s", "e", "t", "s", "t", "a", "t", "e", "_", "_">> }

\* name.startswith('__') and name.endswith('__')
IsDunder(name) ==
    /\ Len(name) >= 2
    /\ name[1] = "_" /\ name[2] = "_"
    /\ name[Len(name) - 1] = "_" /\ name[Len(name)] = "_"

\* getattr(self.target, name): the value the target holds under the name
TargetValue(name) == <<"=">> \o name

\* A variant of Forwarded: every name that is not a dunder name is forwarded.
ForwardedAnyName(name) == ~IsDunder(name)

\* Whether __getattr__ reads the name on the target.
Forwarded(name) == ~IsDunder(name) /\ name \in TargetAttrs

\* __getattr__(name), for a name normal attribute lookup does not find
GetAttr(name) ==
    /\ pc = "idle"
    /\ op' = "getattr"
    /\ afterPush' = PushReturned
    /\ given' = name
    /\ before' = [remote_path |-> remote_path, commands |-> commands, proc |-> proc]
    /\ IF Forwarded(name)
       THEN /\ result' = "ok"
            /\ ret' = << TargetValue(name) >>
            /\ calls' = << Call("getattr", name, FALSE, None) >>
       ELSE \* super().__getattribute__(name) finds nothing either
            /\ result' = "AttributeError"
            /\ ret' = <<>>
            /\ calls' = <<>>
    /\ UNCHANGED << config, object, world, pc, pushed, written, appended, snapshot >>

\* A variant of CommandsAfterPush: the guard lines are added to self.commands.
CommandsAfterPushInPlace(cmds) == <<SetE>> \o cmds \o <<SetPlusE>>

\* self.commands once push() has built the script text: the text is built
\* from new lists, the attribute is left alone.
CommandsAfterPush(cmds) == cmds

\* The length at which a failing write leaves the local file cut off:
\* open(..., 'w') has emptied it and nothing of the text has reached it.
PartialLens(text) == { 0 }

\* A variant of StoredRemotePath that drops what install() reported.
StoredRemotePathDropped(installed) == remote_path

\* A variant of StoredRemotePath that keeps the path of the local file.
StoredRemotePathLocal(installed) == local_path

\* What push() stores in self.remote_path: the path install() reported.
StoredRemotePath(installed) == installed

\* A variant of InstallCalls: install() is tried a second time.
InstallCallsRetry ==
    << Call("install", local_path, FALSE, None), Call("install", local_path, FALSE, None) >>

\* The collaborator calls of a push() that gets as far as target.install().
InstallCalls == << Call("install", local_path, FALSE, None) >>

\* A variant of Uploaded: install() runs before the new text is written,
\* so the local file as it was is uploaded.
UploadedStale(files, text) ==
    IF local_path \in DOMAIN files THEN files[local_path] ELSE <<>>

\* The content target.install(self.local_path) uploads: the file push() has
\* just written over what the local files held.
Uploaded(files, text) == WithFile(files, local_path, text)[local_path]

\* push()
Push ==
    /\ pc = "idle"
    /\ op' = "push"
    /\ afterPush' = PushReturned
    /\ Record(<<>>, <<>>)
    /\ LET text == ScriptText(busybox, commands) IN
         \/ \* open(self.local_path, 'w') raises: nothing is written
            /\ result' = "OSError"
            /\ calls' = <<>>
            /\ commands' = CommandsAfterPush(commands)
            /\ UNCHANGED << remote_path, localFiles, remoteFiles, pushed, written, snapshot >>
         \/ \* script.write(actions) raises: the file is left cut off
            \E k \in PartialLens(text) :
              /\ localFiles' = WithFile(localFiles, local_path, SubSeq(text, 1, k))
              /\ result' = "OSError"
              /\ calls' = <<>>
              /\ commands' = CommandsAfterPush(commands)
              /\ UNCHANGED << remote_path, remoteFiles, pushed, written, snapshot >>
         \/ \* the file is written, target.install() raises
            /\ localFiles' = WithFile(localFiles, local_path, text)
            /\ result' = "TargetError"
            /\ calls' = InstallCalls
            /\ commands' = CommandsAfterPush(commands)
            /\ written' = written \cup {text}
            /\ UNCHANGED << remote_path, remoteFiles, pushed, snapshot >>
         \/ \* the file is written and installed in one of the target's directories
            \E d \in RemoteDirs :
              LET installed == InstallPath(d, local_path) IN
                /\ localFiles' = WithFile(localFiles, local_path, text)
                /\ remoteFiles' = WithFile(remoteFiles, installed, Uploaded(localFiles, text))
                /\ remote_path' = StoredRemotePath(installed)
                /\ result' = "ok"
                /\ calls' = InstallCalls
                /\ commands' = CommandsAfterPush(commands)
                /\ pushed' = TRUE
                /\ snapshot' = commands
                /\ written' = written \cup {text}
    /\ UNCHANGED << config, proc, procs, responsive, pc, appended >>

\* A variant of PrerunCheckPasses that lets every path through.
PrerunCheckSkipped == TRUE

\* A variant of PrerunCheckPasses that only asks whether a path was stored.
PrerunCheckNonEmpty == remote_path # <<>>

\* _prerun_check(): passes when the target has a file at self.remote_path
PrerunCheckPasses == FileExists(remote_path)

\* A variant of RunCalls that executes the script a second time.
RunCallsRetry(root) ==
    << Call("file_exists", remote_path, FALSE, None),
       Call("execute", remote_path, root, None),
       Call("execute", remote_path, root, None) >>

\* The collaborator calls of a run() whose check passes.
RunCalls(root) ==
    << Call("file_exists", remote_path, FALSE, None),
       Call("execute", remote_path, root, None) >>

\* A variant of TrackedAfterRun: run() forgets the background handle.
TrackedAfterRunCleared(p) == None

\* self._proc once run() has ended: run() does not assign it.
TrackedAfterRun(p) == p

\* run(as_root)
Run(root) ==
    /\ pc = "idle"
    /\ op' = "run"
    /\ afterPush' = PushReturned
    /\ Record(<<>>, <<>>)
    /\ IF ~PrerunCheckPasses
       THEN /\ result' = "FileNotFoundError"
            /\ calls' = << Call("file_exists", remote_path, FALSE, None) >>
       ELSE /\ result' \in { "ok", "TargetError" }
            /\ calls' = RunCalls(root)
    /\ proc' = TrackedAfterRun(proc)
    /\ UNCHANGED << config, remote_path, commands, world, pc, pushed, written,
                    appended, snapshot >>

\* A variant of TrackedAfterBackground: a handle already stored is kept.
TrackedAfterBackgroundKeepFirst(old, new) == IF old = None THEN new ELSE old

\* self._proc once target.background() has returned the handle new.
TrackedAfterBackground(old, new) == new

\* background(as_root)
Background(root) ==
    /\ pc = "idle"
    /\ op' = "background"
    /\ afterPush' = PushReturned
    /\ given' = <<>>
    /\ before' = [remote_path |-> remote_path, commands |-> commands, proc |-> proc]
    /\ IF ~PrerunCheckPasses
       THEN /\ result' = "FileNotFoundError"
            /\ calls' = << Call("file_exists", remote_path, FALSE, None) >>
            /\ ret' = <<>>
            /\ UNCHANGED << proc, procs >>
       ELSE \/ \* target.background() raises
               /\ result' = "TargetError"
               /\ calls' = << Call("file_exists", remote_path, FALSE, None),
                              Call("background", remote_path, root, None) >>
               /\ ret' = <<>>
               /\ UNCHANGED << proc, procs >>
            \/ \* target.background() starts a process and returns its handle
               /\ Len(procs) < MaxProcs
               /\ procs' = Append(procs, "running")
               /\ proc' = TrackedAfterBackground(proc, Len(procs) + 1)
               /\ ret' = << proc' >>
               /\ result' = "ok"
               /\ calls' = << Call("file_exists", remote_path, FALSE, None),
                              Call("background", remote_path, root, Len(procs) + 1) >>
    /\ UNCHANGED << config, remote_path, commands, localFiles, remoteFiles,
                    responsive, pc, pushed, written, appended, snapshot >>

\* A variant of NoProcResult: wait() and kill() return without raising.
NoProcResultSilent == "ok"

\* What wait() and kill() raise when self._proc is not set.
NoProcResult == "RuntimeError"

\* wait(): the check of self._proc, before the polling loop
WaitCall ==
    /\ pc = "idle"
    /\ op' = "wait"
    /\ afterPush' = PushReturned
    /\ Record(<<>>, <<>>)
    /\ calls' = <<>>
    /\ IF proc = None
       THEN /\ result' = NoProcResult
            /\ pc' = "idle"
       ELSE /\ result' = "polling"
            /\ pc' = "wait"
    /\ UNCHANGED << config, object, world, pushed, written, appended, snapshot >>

\* A variant of PollReportsCompletion: the test of the loop is inverted.
PollReportsCompletionInverted(st) == st = "running"

\* self._proc.poll() is not None: the process has ended
PollReportsCompletion(st) == st = "exited"

\* A variant of Explode: the probe is made with explode=False.
ExplodeOff == FALSE

\* The explode argument wait() gives to target.check_responsive().
Explode == TRUE

\* target.check_responsive(explode): raises when the target does not answer
\* and explode is set.
ProbeRaises(explode) == explode /\ ~responsive

\* wait(): one iteration of `while self._proc.poll() is None`
WaitPoll ==
    /\ pc = "wait"
    /\ op' = "wait"
    /\ afterPush' = PushReturned
    /\ Record(<<>>, <<>>)
    /\ IF PollReportsCompletion(procs[proc])
       THEN /\ result' = "ok"
            /\ calls' = << Call("poll", <<>>, FALSE, proc) >>
            /\ pc' = "idle"
       ELSE /\ calls' = << Call("poll", <<>>, FALSE, proc),
                           Call("check_responsive", <<>>, FALSE, None) >>
            /\ IF ProbeRaises(Explode)
               THEN /\ result' = "TargetNotRespondingError"
                    /\ pc' = "idle"
               ELSE \* sleep(poll_sleep_s), then the loop polls again
                    /\ result' = "polling"
                    /\ pc' = "wait"
    /\ UNCHANGED << config, object, world, pushed, written, appended, snapshot >>

\* kill(as_root)
Kill(root) ==
    /\ pc = "idle"
    /\ op' = "kill"
    /\ afterPush' = PushReturned
    /\ Record(<<>>, <<>>)
    /\ IF proc = None
       THEN /\ result' = NoProcResult
            /\ calls' = <<>>
            /\ procs' = procs
       ELSE \/ \* target.kill() raises
               /\ result' = "TargetError"
               /\ calls' = << Call("kill", PgrepExpr(script_name), root, None) >>
               /\ procs' = procs
            \/ \* target.kill() returns, then self._proc.kill(): the process is
               \* signalled, and ends when ProcComplete says so
               /\ result' = "ok"
               /\ calls' = << Call("kill", PgrepExpr(script_name), root, None),
                              Call("proc_kill", <<>>, FALSE, proc) >>
               /\ procs' = procs
    /\ UNCHANGED << config, object, localFiles, remoteFiles, responsive,
                    pc, pushed, written, appended, snapshot >>

\* ------------------------------------------------------------- environment

\* An event of the environment: no method of the object is involved.
EnvEvent ==
    /\ op' = "env"
    /\ result' = "ok"
    /\ calls' = <<>>
    /\ afterPush' = PushReturned
    /\ Record(<<>>, <<>>)
    /\ UNCHANGED << config, object, pc, pushed, written, appended, snapshot >>

\* A background process ends (by itself, or after it was killed).
ProcComplete(h) ==
    /\ procs[h] = "running"
    /\ procs' = [procs EXCEPT ![h] = "exited"]
    /\ EnvEvent
    /\ UNCHANGED << localFiles, remoteFiles, responsive >>

\* The target stops answering.
TargetHang ==
    /\ responsive
    /\ responsive' = FALSE
    /\ EnvEvent
    /\ UNCHANGED << localFiles, remoteFiles, procs >>

\* The target answers again.
TargetRecover ==
    /\ ~responsive
    /\ responsive' = TRUE
    /\ EnvEvent
    /\ UNCHANGED << localFiles, remoteFiles, procs >>

\* A deployed file disappears from the target (reboot, cleanup).
RemoteCleanup(path) ==
    /\ remoteFiles' = WithoutFile(remoteFiles, path)
    /\ EnvEvent
    /\ UNCHANGED << localFiles, procs, responsive >>

Next ==
    \/ \E cmd \in CmdSet : AppendCmd(cmd)
    \/ \E cmd \in CmdSet : Execute(cmd)
    \/ \E name \in AttrNames : GetAttr(name)
    \/ Push
    \/ \E root \in BOOLEAN : Run(root)
    \/ \E root \in BOOLEAN : Background(root)
    \/ WaitCall
    \/ WaitPoll
    \/ \E root \in BOOLEAN : Kill(root)
    \/ \E h \in 1..Len(procs) : ProcComplete(h)
    \/ TargetHang
    \/ TargetRecover
    \/ \E path \in DOMAIN remoteFiles : RemoteCleanup(path)

Spec == Init /\ [][Next]_vars

\* Once wait() is in its loop, the loop goes on: it sleeps, then polls again.
LiveSpec == Spec /\ WF_vars(WaitPoll)

\* ------------------------------------------------------------------ claims

RECURSIVE SplitLines(_)
\* text.split('\n'): the lines of a text
SplitLines(text) ==
    IF \E i \in 1..Len(text) : text[i] = NL
    THEN LET i == CHOOSE j \in 1..Len(text) :
                    text[j] = NL /\ \A k \in 1..(j - 1) : text[k] # NL
         IN  <<SubSeq(text, 1, i - 1)>> \o SplitLines(SubSeq(text, i + 1, Len(text)))
    ELSE <<text>>

RECURSIVE LinesOfAll(_)
\* The lines of each text of a list, one text after the other.
LinesOfAll(texts) ==
    IF texts = <<>> THEN <<>>
    ELSE SplitLines(texts[1]) \o LinesOfAll(Tail(texts))

\* The lines of a script between its first two lines and its last line.
CommandLines(text) ==
    LET lines == SplitLines(text) IN SubSeq(lines, 3, Len(lines) - 1)

\* push() has just returned normally: the script is written and installed.
PushDone == op = "push" /\ result = "ok"

\* C1 as stated: after append() calls and a push(), the command lines of the
\* script push() wrote are exactly the appended commands, in append order.
C1_CommandLinesAreTheCommands ==
    PushDone => CommandLines(localFiles[local_path]) = appended

\* C1, amended: after append() calls and a push(), the command lines of the
\* script push() wrote are exactly the lines of the appended commands, in
\* append order, none dropped, duplicated or reordered; a command without a
\* newline is one line, a command with newlines spans as many lines more.
C1_CommandLinesInAppendOrder ==
    PushDone =>
        /\ CommandLines(localFiles[local_path]) = LinesOfAll(appended)
        /\ (\A i \in 1..Len(appended) : \A j \in 1..Len(appended[i]) : appended[i][j] # NL)
              => CommandLines(localFiles[local_path]) = appended

C1_Witness ==
    /\ PushDone
    /\ Len(appended) = 2
    /\ appended[1] # appended[2]

\* C2: run() or background() before any push() has returned normally ends
\* with FileNotFoundError, and neither target.execute() nor
\* target.background() is called.
C2_RunBeforePushFails ==
    (op \in { "run", "background" } /\ ~pushed) =>
        /\ result = "FileNotFoundError"
        /\ \A i \in 1..Len(calls) : calls[i].m \notin { "execute", "background" }

C2_Witness ==
    /\ op = "background"
    /\ ~pushed
    /\ commands # <<>>
    /\ localFiles # <<>>

\* C3: wait() or kill() on an instance on which no background() has returned
\* normally ends with RuntimeError, whatever was called before.
C3_WaitKillWithoutBackgroundFails ==
    (op \in { "wait", "kill" } /\ procs = <<>>) =>
        /\ result = "RuntimeError"
        /\ calls = <<>>
        /\ pc = "idle"

C3_Witness ==
    /\ op = "kill"
    /\ procs = <<>>
    /\ pushed
    /\ commands # <<>>

\* C4: once kill() has returned normally, no background handle is tracked.
C4_KillClearsHandle ==
    (op = "kill" /\ result = "ok") => proc = None

\* C5: once wait() has returned normally, no background handle is tracked.
C5_WaitClearsHandle ==
    (op = "wait" /\ result = "ok") => proc = None

\* C6: a run() or background() that directly follows a push() that returned
\* normally does not end with FileNotFoundError.
C6_RunAfterPushPassesCheck ==
    (op \in { "run", "background" } /\ afterPush) => result # "FileNotFoundError"

C6_Witness ==
    /\ op = "background"
    /\ afterPush
    /\ result = "ok"
    /\ Len(procs) = 2

\* C7: remote_path is non-empty exactly when a push() has returned normally.
C7_RemotePathIffPushed ==
    (remote_path # <<>>) <=> pushed

C7_Witness ==
    /\ op = "push"
    /\ result = "TargetError"
    /\ ~pushed
    /\ remote_path = <<>>

RECURSIVE EachOnItsLine(_)
\* Each text of a list followed by a newline.
EachOnItsLine(texts) ==
    IF texts = <<>> THEN <<>>
    ELSE texts[1] \o <<NL>> \o EachOnItsLine(Tail(texts))

\* C8: the script text push() writes is the shebang line, 'set -e', every
\* accumulated command and 'set +e', joined by newlines, with no other line
\* and no trailing newline; with no command it is the three guard lines.
C8_ScriptTextFormat ==
    PushDone =>
        LET text == localFiles[local_path] IN
          /\ text = <<"#", "!">> \o busybox \o <<" ", "s", "h", NL>>
                    \o <<"s", "e", "t", " ", "-", "e", NL>>
                    \o EachOnItsLine(commands)
                    \o <<"s", "e", "t", " ", "+", "e">>
          /\ text[Len(text)] # NL
          /\ commands = <<>> =>
                SplitLines(text) = << <<"#", "!">> \o busybox \o <<" ", "s", "h">>,
                                      <<"s", "e", "t", " ", "-", "e">>,
                                      <<"s", "e", "t", " ", "+", "e">> >>

C8_Witness ==
    /\ PushDone
    /\ Len(commands) = 2
    /\ remoteFiles[remote_path] = localFiles[local_path]

\* C9: the push() calls made with no append() between them all write the same
\* local script, and push() leaves the commands as they were.
C9_PushIdempotent ==
    /\ Cardinality(written) <= 1
    /\ (op = "push" /\ result \in { "ok", "TargetError" }) =>
          /\ written = { localFiles[local_path] }
          /\ commands = appended

C9_Witness ==
    /\ PushDone
    /\ afterPush
    /\ commands # <<>>
    /\ written = { localFiles[local_path] }

\* C10: a run() made when the deployed script is on the target first checks
\* that self.remote_path exists, then calls target.execute() once, with
\* self.remote_path; no run() calls execute() before the check or twice.
C10_RunChecksThenExecutesOnce ==
    op = "run" =>
        /\ calls[1] = Call("file_exists", remote_path, FALSE, None)
        /\ \A i \in 2..Len(calls) : calls[i].m = "execute" /\ calls[i].arg = remote_path
        /\ Len(calls) <= 2
        /\ (pushed /\ FileExists(remote_path)) =>
              (Len(calls) = 2 /\ result \in { "ok", "TargetError" })
        /\ ~FileExists(remote_path) => Len(calls) = 1

C10_Witness ==
    /\ op = "run"
    /\ result = "ok"
    /\ pushed
    /\ Len(calls) = 2

\* C11 as stated: a kill() made while a handle is tracked makes one
\* target.kill() call with the pgrep expression of script_name and then
\* kills the local handle, also when target.kill() fails.
C11_KillAttemptsBothTerminations ==
    (op = "kill" /\ before.proc # None) =>
        /\ Len(calls) = 2
        /\ calls[1].m = "kill" /\ calls[1].arg = PgrepExpr(script_name)
        /\ calls[2] = Call("proc_kill", <<>>, FALSE, before.proc)

\* C12: an iteration of wait() that finds the process not ended probes the
\* target; when the target does not answer, wait() ends at once with
\* TargetNotRespondingError and has left its loop, otherwise it goes on.
C12_WaitProbesAndFailsFast ==
    /\ (op = "wait" /\ calls # <<>> /\ procs[proc] # "exited") =>
          /\ calls = << Call("poll", <<>>, FALSE, proc),
                        Call("check_responsive", <<>>, FALSE, None) >>
          /\ ~responsive => (result = "TargetNotRespondingError" /\ pc = "idle")
          /\ responsive => (result = "polling" /\ pc = "wait")
    /\ (op = "wait" /\ result = "TargetNotRespondingError") =>
          /\ pc = "idle"
          /\ ~responsive
          /\ calls[Len(calls)].m = "check_responsive"

C12_Witness ==
    /\ op = "wait"
    /\ result = "TargetNotRespondingError"
    /\ procs[proc] = "running"

\* C13: wait() returns normally only when the process has ended; it leaves
\* its loop exactly when the process has ended or the target does not answer,
\* so with a running process and an answering target it goes on polling
\* without bound; and once the process has ended it does return.
C13_WaitReturnsOnCompletionOnly ==
    /\ []((op = "wait" /\ result = "ok") => procs[proc] = "exited")
    /\ [][(pc = "wait" /\ op' = "wait")
             => ((pc' = "idle") <=> (procs[proc] = "exited" \/ ~responsive))]_vars
    /\ (pc = "wait" /\ procs[proc] = "exited")
          ~> (pc = "idle" /\ op = "wait" /\ result = "ok")

C13_Witness ==
    /\ op = "wait"
    /\ result = "ok"
    /\ pc = "idle"
    /\ procs[proc] = "exited"

\* C14: the tracked handle is the one of the most recent background() that
\* returned normally; such a background() returns the handle it stored and
\* calls nothing but file_exists() and background(), whatever was tracked.
C14_LatestHandleTracked ==
    /\ procs = <<>> => proc = None
    /\ procs # <<>> => proc = Len(procs)
    /\ (op = "background" /\ result = "ok") =>
          /\ ret = << proc >>
          /\ Len(calls) = 2
          /\ calls[1] = Call("file_exists", remote_path, FALSE, None)
          /\ calls[2].m = "background" /\ calls[2].arg = remote_path
          /\ calls[2].h = proc

C14_Witness ==
    /\ op = "background"
    /\ result = "ok"
    /\ before.proc = 1
    /\ proc = 2
    /\ procs[1] = "running"

\* C15: append(cmd) and execute(cmd) add cmd at the end of commands and
\* change nothing else of the object, of the local files or of the target,
\* and call nothing on the target.
C15_AppendOnlyAccumulates ==
    [][op' \in { "append", "execute" } =>
          /\ commands' = Append(commands, given')
          /\ result' = "ok"
          /\ calls' = <<>>
          /\ UNCHANGED << script_name, local_path, remote_path, proc, busybox,
                          localFiles, remoteFiles, procs, responsive, pc >>]_vars

C15_Witness ==
    /\ op = "execute"
    /\ Len(commands) = 2
    /\ proc # None
    /\ FileExists(remote_path)
    /\ commands # snapshot

\* C16: reading an allow-listed name the object does not store returns the
\* target's value for that name; reading any other such name ends with
\* AttributeError and returns nothing; a dunder name is never read on the
\* target.
C16_AttributeProxy ==
    op = "getattr" =>
        /\ given \in TargetAttrs =>
              /\ result = "ok"
              /\ ret = << TargetValue(given) >>
              /\ calls = << Call("getattr", given, FALSE, None) >>
        /\ given \notin TargetAttrs =>
              /\ result = "AttributeError"
              /\ ret = <<>>
              /\ calls = <<>>
        /\ (given[1] = "_" /\ given[2] = "_") => calls = <<>>

C16_Witness ==
    /\ op = "getattr"
    /\ result = "ok"
    /\ given = <<"m", "o", "d", "e", "l">>
    /\ pushed

\* C17: while the deployed script is missing on the target, run() and
\* background() end with FileNotFoundError, call neither execute() nor
\* background() and leave the tracked handle as it was.
C17_MissingScriptFails ==
    (op \in { "run", "background" } /\ pushed /\ ~FileExists(remote_path)) =>
        /\ result = "FileNotFoundError"
        /\ calls = << Call("file_exists", remote_path, FALSE, None) >>
        /\ proc = before.proc
        /\ ret = <<>>

C17_Witness ==
    /\ op = "background"
    /\ pushed
    /\ ~FileExists(remote_path)
    /\ proc # None

\* C18: a push() calls install() at most once; a push() that fails ends with
\* the error of the step that failed and leaves remote_path, commands and
\* the tracked handle as they were.
C18_FailedPushChangesNothing ==
    op = "push" =>
        /\ Cardinality({ i \in 1..Len(calls) : calls[i].m = "install" }) <= 1
        /\ result # "ok" =>
              /\ result \in { "OSError", "TargetError" }
              /\ remote_path = before.remote_path
              /\ commands = before.commands
              /\ proc = before.proc

C18_Witness ==
    /\ op = "push"
    /\ result = "TargetError"
    /\ pushed
    /\ FileExists(remote_path)
    /\ commands # snapshot
    /\ proc # None

\* C19: what run() and background() execute is the script of the commands
\* as they were at the last push() that returned normally.
C19_DeployedScriptIsSnapshot ==
    (op \in { "run", "background" } /\ result # "FileNotFoundError") =>
        /\ remoteFiles[remote_path] = ScriptText(busybox, snapshot)
        /\ CommandLines(remoteFiles[remote_path]) = LinesOfAll(snapshot)

C19_Witness ==
    /\ op = "run"
    /\ result = "ok"
    /\ commands # snapshot
    /\ snapshot # <<>>

\* C20: push() and run() leave the tracked background handle as it was.
C20_PushRunKeepHandle ==
    op \in { "push", "run" } => proc = before.proc

C20_Witness ==
    /\ op = "run"
    /\ result = "ok"
    /\ proc # None
    /\ procs[proc] = "running"

====
